---- MODULE Spec2Model ----
(***************************************************************************)
(* PulseForge data pipeline (scripts/fetch_data.py).                       *)
(*                                                                         *)
(* Numbers.  Prices, yields and index levels are Python floats.  They are  *)
(* modelled as integers counted in units of 1/Unit, and every quantity the *)
(* code derives from them by division (moving averages, percentages,       *)
(* scores) as an exact fraction [n, d] in lowest terms.  round(x, k) is    *)
(* round-half-to-even on the exact value.                                  *)
(***************************************************************************)
EXTENDS Integers, Sequences, FiniteSets

\* One unit of value is 1/Unit: 100000 units make 1.0.
Unit == 10^5

Abs(x) == IF x < 0 THEN -x ELSE x

Min2(a, b) == IF a <= b THEN a ELSE b

Max2(a, b) == IF a >= b THEN a ELSE b

RECURSIVE GCD(_, _)
GCD(a, b) == IF b = 0 THEN a ELSE GCD(b, a % b)

\* The fraction n/d (d # 0) in lowest terms with a positive denominator.
Rat(n, d) ==
    LET g == GCD(Abs(n), Abs(d))
        s == IF d < 0 THEN -1 ELSE 1
    IN  [n |-> s * (n \div g), d |-> s * (d \div g)]

RInt(k) == [n |-> k, d |-> 1]

RAdd(a, b) ==
    LET g == GCD(a.d, b.d)
    IN  Rat(a.n * (b.d \div g) + b.n * (a.d \div g), (a.d \div g) * b.d)

RSub(a, b) == RAdd(a, [n |-> -b.n, d |-> b.d])

RMul(a, b) ==
    LET x == Rat(a.n, b.d)
        y == Rat(b.n, a.d)
    IN  [n |-> x.n * y.n, d |-> x.d * y.d]

\* a / b for b # 0
RDiv(a, b) == RMul(a, Rat(b.d, b.n))

RLt(a, b) == a.n * b.d < b.n * a.d

RAbs(a) == [n |-> Abs(a.n), d |-> a.d]

\* max(lo, min(hi, a)) for integers lo <= hi
Clamp(lo, hi, a) ==
    IF RLt(a, RInt(lo)) THEN RInt(lo)
    ELSE IF RLt(RInt(hi), a) THEN RInt(hi)
    ELSE a

\* The integer nearest to n/d (d > 0), ties to the even one: Python's round().
RoundHalfEven(n, d) ==
    LET q == n \div d
        r == n % d
    IN  IF 2 * r < d THEN q
        ELSE IF 2 * r > d THEN q + 1
        ELSE IF q % 2 = 0 THEN q ELSE q + 1

\* round(a, k) as a count of 10^-k: round(81.25, 1) is 812.
Round(a, k) == RoundHalfEven(a.n * 10^k, a.d)

\* int(a): truncation toward zero.
Trunc(a) == IF a.n >= 0 THEN a.n \div a.d ELSE -((-a.n) \div a.d)

RECURSIVE SumSeq(_)
SumSeq(s) == IF s = <<>> THEN 0 ELSE Head(s) + SumSeq(Tail(s))

Last(s) == s[Len(s)]

\* Python's s[a:b] for 0 <= a, on a 1-based sequence: the elements with
\* 0-based index a .. b-1 that exist.
Slice(s, a, b) ==
    LET hi == Min2(b, Len(s))
    IN  IF a >= hi THEN <<>> ELSE SubSeq(s, a + 1, hi)

\* Python's s[-k:]: the last k elements (all of s when it is shorter).
Tail_k(s, k) == IF Len(s) <= k THEN s ELSE SubSeq(s, Len(s) - k + 1, Len(s))

\* A series of n values, all base except alt at the positions pos.
Pattern(n, base, alt, pos) == [k \in 1..n |-> IF k \in pos THEN alt ELSE base]

(***************************************************************************)
(* Python values.  A time series is the dict {dates, values, volumes} the  *)
(* adapters build (is_proxy is the key the resolvers add; an absent key is *)
(* FALSE); None is the no-data value.  dates are day numbers.              *)
(***************************************************************************)
None == [kind |-> "None", dates |-> <<>>, values |-> <<>>, volumes |-> <<>>,
         is_proxy |-> FALSE]

Series(dates, values, volumes) ==
    [kind |-> "series", dates |-> dates, values |-> values,
     volumes |-> volumes, is_proxy |-> FALSE]

\* What a call ends with: a value, or an exception that propagates.
NoResult == [kind |-> "None", exc |-> "", scores |-> <<>>]

Raised(e) == [kind |-> "raise", exc |-> e, scores |-> <<>>]

Scores(s) == [kind |-> "scores", exc |-> "", scores |-> s]

(***************************************************************************)
(* compute_pulse_score.  i is the code's 0-based index; vals[i] of the     *)
(* code is vals[i + 1] here.  A signal is [st, s, w]: st = "on" when the   *)
(* signal was appended with score s and weight w (in hundredths), "off"    *)
(* when its guard skipped it, "raise" when computing it divided by zero.   *)
(***************************************************************************)
SigOff == [st |-> "off", s |-> RInt(0), w |-> 0]

SigRaise == [st |-> "raise", s |-> RInt(0), w |-> 0]

SigOn(s, w) == [st |-> "on", s |-> s, w |-> w]

\* 1. Trend: price against the SMA of the 20 values before it.
trend_signal(spy_vals, i) ==
    IF i >= 20
    THEN LET sum20 == SumSeq(Slice(spy_vals, i - 20, i))
             sma20 == Rat(sum20, 20)
             trend_pct == RMul(RDiv(RSub(RInt(spy_vals[i + 1]), sma20), sma20),
                               RInt(100))
         IN  IF sum20 = 0 THEN SigRaise
             ELSE SigOn(Clamp(0, 100, RAdd(RInt(50), RMul(trend_pct, RInt(10)))), 25)
    ELSE SigOff

\* 2. Momentum: 10-day rate of change.
momentum_signal(spy_vals, i) ==
    IF i >= 10
    THEN LET prev == spy_vals[i - 10 + 1]
             roc == RMul(Rat(spy_vals[i + 1] - prev, prev), RInt(100))
         IN  IF prev = 0 THEN SigRaise
             ELSE SigOn(Clamp(0, 100, RAdd(RInt(50), RMul(roc, RInt(8)))), 20)
    ELSE SigOff

\* vix = vix_vals[min(i, len(vix_vals)-1)]
vix_at(vix_vals, i) == vix_vals[Min2(i, Len(vix_vals) - 1) + 1]

\* The volatility level centred at 50 like the other signals.
volatility_signal_centred(vix_vals, i) ==
    SigOn(Clamp(0, 100, RSub(RInt(50),
                             RMul(Rat(vix_at(vix_vals, i) - 12 * Unit, Unit), RInt(4)))),
          25)

\* 3. Volatility level: 100 - (vix - 12) * 4, clamped.
volatility_signal(vix_vals, i) ==
    SigOn(Clamp(0, 100, RSub(RInt(100),
                             RMul(Rat(vix_at(vix_vals, i) - 12 * Unit, Unit), RInt(4)))),
          25)

\* 4. VIX direction: change over the 5 days before, 0 when vix_prev is 0.
vix_direction_signal(vix_vals, i) ==
    IF i >= 5 /\ i < Len(vix_vals)
    THEN LET vix == vix_at(vix_vals, i)
             vix_prev == vix_vals[Max2(0, Min2(i - 5, Len(vix_vals) - 1)) + 1]
             vix_change == IF vix_prev # 0
                           THEN RMul(Rat(vix - vix_prev, vix_prev), RInt(100))
                           ELSE RInt(0)
         IN  SigOn(Clamp(0, 100, RSub(RInt(50), RMul(vix_change, RInt(5)))), 15)
    ELSE SigOff

\* 5. Volume trend: current volume against the mean of the up-to-20 volumes
\* before it, signed by the day's price direction.
breadth_signal(spy_vals, volumes, i) ==
    IF i >= 20 /\ volumes # <<>>
    THEN LET recent_vols == Slice(volumes, Max2(0, i - 20), i)
             vol_sum == SumSeq(recent_vols)
             vol_sma == Rat(vol_sum, Len(recent_vols))
             current_vol == IF i < Len(volumes) THEN RInt(volumes[i + 1]) ELSE vol_sma
             vol_ratio == IF vol_sum > 0 THEN RDiv(current_vol, vol_sma) ELSE RInt(1)
             price_dir == IF spy_vals[i + 1] >= spy_vals[i] THEN 1 ELSE -1
         IN  IF recent_vols # <<>> /\ \A k \in 1..Len(recent_vols) : recent_vols[k] > 0
             THEN SigOn(Clamp(0, 100,
                              RAdd(RInt(50),
                                   RMul(RInt(price_dir * 30), RSub(vol_ratio, RInt(1))))),
                        15)
             ELSE SigOff
    ELSE SigOff

signals_at(spy_vals, vix_vals, volumes, i) ==
    << trend_signal(spy_vals, i), momentum_signal(spy_vals, i),
       volatility_signal(vix_vals, i), vix_direction_signal(vix_vals, i),
       breadth_signal(spy_vals, volumes, i) >>

RECURSIVE WeightedSum(_, _)
WeightedSum(sigs, k) ==
    IF k = 0 THEN RInt(0)
    ELSE IF sigs[k].st = "on"
    THEN RAdd(WeightedSum(sigs, k - 1), RMul(sigs[k].s, Rat(sigs[k].w, 100)))
    ELSE WeightedSum(sigs, k - 1)

RECURSIVE TotalWeight(_, _)
TotalWeight(sigs, k) ==
    IF k = 0 THEN 0
    ELSE TotalWeight(sigs, k - 1) + (IF sigs[k].st = "on" THEN sigs[k].w ELSE 0)

\* The score of day i in tenths (round(score, 1)); 50.0 when no signal is on.
score_at(sigs) ==
    IF TotalWeight(sigs, Len(sigs)) > 0
    THEN Round(RDiv(WeightedSum(sigs, Len(sigs)), Rat(TotalWeight(sigs, Len(sigs)), 100)), 1)
    ELSE 500

compute_pulse_score(spy_data, vix_data) ==
    IF spy_data.kind = "None" \/ vix_data.kind = "None" THEN NoResult
    ELSE
    LET spy_vals == spy_data.values
        vix_vals == vix_data.values
        n == Min2(Len(spy_vals), Len(vix_vals))
        sigs == [i \in 0..(n - 1) |-> signals_at(spy_vals, vix_vals, spy_data.volumes, i)]
        raises == {i \in 0..(n - 1) : \E k \in 1..5 : sigs[i][k].st = "raise"}
    IN  IF n < 20 THEN NoResult
        ELSE IF raises # {} THEN Raised("ZeroDivisionError")
        ELSE Scores([k \in 1..n |-> score_at(sigs[k - 1])])

(***************************************************************************)
(* Transport responses.  fetch_json returns the parsed JSON body, or None  *)
(* after its last failed attempt.  A JSON value is tagged with its type:   *)
(* null (Python None), a number n, a non-empty string, an array of items,  *)
(* an object with the fields f.  Numbers that are prices count units of    *)
(* 1/Unit; timestamps are carried at day granularity, so the local date    *)
(* strftime('%Y-%m-%d') prints for one is that day number.                 *)
(***************************************************************************)
JNull == [ty |-> "null"]

JStr == [ty |-> "str"]

JNum(n) == [ty |-> "num", n |-> n]

JArr(items) == [ty |-> "arr", items |-> items]

JObj(f) == [ty |-> "obj", f |-> f]

\* bool(j)
Truthy(j) ==
    CASE j.ty = "null" -> FALSE
      [] j.ty = "num" -> j.n # 0
      [] j.ty = "str" -> TRUE
      [] j.ty = "arr" -> j.items # <<>>
      [] j.ty = "obj" -> DOMAIN j.f # {}

\* What evaluating an expression ends with when it raises.
JErr(e) == [ty |-> "err", exc |-> e]

\* j[key] for a string key; an error passes through.
Sub(j, key) ==
    CASE j.ty = "err" -> j
      [] j.ty = "obj" -> IF key \in DOMAIN j.f THEN j.f[key] ELSE JErr("KeyError")
      [] OTHER -> JErr("TypeError")

\* j[0]
Idx0(j) ==
    CASE j.ty = "err" -> j
      [] j.ty = "arr" -> IF j.items # <<>> THEN j.items[1] ELSE JErr("IndexError")
      [] j.ty = "obj" -> JErr("KeyError")
      [] j.ty = "str" -> JStr
      [] OTHER -> JErr("TypeError")

\* dict.get(key): None when the key is missing (j an object).
Get(j, key) == IF key \in DOMAIN j.f THEN j.f[key] ELSE JNull

\* The items iterating over j yields: an array's items, a string's
\* characters, an object's keys; anything else is not iterable.
Iterable(j) == j.ty \in {"arr", "str", "obj"}

Items(j) ==
    CASE j.ty = "arr" -> j.items
      [] j.ty = "str" -> <<JStr>>
      [] j.ty = "obj" -> [k \in 1..Cardinality(DOMAIN j.f) |-> JStr]

\* An exception leaving a function.
RaiseV(e) == [kind |-> "raise", exc |-> e]

\* polygon_aggs(symbol): data is what fetch_json returned.  The three list
\* comprehensions run one after the other, each over every bar: r["t"] / 1000
\* for the dates, r["c"] for the values, r.get("v", 0) for the volumes.
polygon_aggs(POLYGON_KEY, data) ==
    IF ~POLYGON_KEY THEN None
    ELSE IF ~Truthy(data) THEN None
    ELSE IF data.ty # "obj" THEN RaiseV("AttributeError")
    ELSE
    LET results == Get(data, "results")
    IN  IF ~Truthy(results) THEN None
        ELSE IF results.ty # "arr" THEN RaiseV("TypeError")
        ELSE
        LET bars == results.items
            t_of == [k \in 1..Len(bars) |-> Sub(bars[k], "t")]
            c_of == [k \in 1..Len(bars) |-> Sub(bars[k], "c")]
            bad_t == {k \in 1..Len(bars) : t_of[k].ty # "num"}
            first_bad == CHOOSE k \in bad_t : \A j \in bad_t : k <= j
        IN  IF bad_t # {}
            THEN RaiseV(IF t_of[first_bad].ty = "err" THEN t_of[first_bad].exc
                        ELSE "TypeError")
            ELSE IF \E k \in 1..Len(bars) : c_of[k].ty = "err" THEN RaiseV("KeyError")
            ELSE Series([k \in 1..Len(bars) |-> t_of[k].n],
                        [k \in 1..Len(bars) |-> c_of[k].n],
                        [k \in 1..Len(bars) |-> IF Get(bars[k], "v").ty = "num"
                                                THEN Get(bars[k], "v").n ELSE 0])

\* The (timestamp, close) pairs of zip(timestamps, closes) whose close is
\* not None.
RECURSIVE KeepCloses(_, _, _)
KeepCloses(ts, cs, k) ==
    IF k > Min2(Len(ts), Len(cs)) THEN <<>>
    ELSE IF cs[k].ty = "null" THEN KeepCloses(ts, cs, k + 1)
    ELSE <<[ts |-> ts[k], c |-> cs[k]]>> \o KeepCloses(ts, cs, k + 1)

\* round(c, 4) of a close counted in units of 10^-5
round4(c) == RoundHalfEven(c, 10) * 10

\* _yahoo_chart(symbol): KeyError, IndexError and TypeError are caught and
\* end in None.
_yahoo_chart(data) ==
    IF ~Truthy(data) THEN None
    ELSE
    LET result == Idx0(Sub(Sub(data, "chart"), "result"))
        timestamps == Sub(result, "timestamp")
        closes == Sub(Idx0(Sub(Sub(result, "indicators"), "quote")), "close")
        kept == KeepCloses(Items(timestamps), Items(closes), 1)
    IN  IF timestamps.ty = "err" \/ closes.ty = "err" THEN None
        ELSE IF ~Iterable(timestamps) \/ ~Iterable(closes) THEN None
        ELSE IF \E k \in 1..Len(kept) : kept[k].ts.ty # "num" \/ kept[k].c.ty # "num"
        THEN None
        ELSE IF kept = <<>> THEN None
        ELSE Series([k \in 1..Len(kept) |-> kept[k].ts.n],
                    [k \in 1..Len(kept) |-> round4(kept[k].c.n)],
                    <<>>)

\* finnhub_quote(symbol): a quote, None, or the exception of a missing
\* field or a wrong-typed price.
finnhub_quote(FINNHUB_KEY, data) ==
    IF ~FINNHUB_KEY THEN [kind |-> "None"]
    ELSE IF ~Truthy(data) THEN [kind |-> "None"]
    ELSE IF data.ty # "obj" THEN RaiseV("AttributeError")
    ELSE IF ~Truthy(Get(data, "c")) THEN [kind |-> "None"]
    ELSE IF Get(data, "c").ty # "num" THEN RaiseV("TypeError")
    ELSE IF ~(Get(data, "c").n > 0) THEN [kind |-> "None"]
    ELSE IF \E k \in {"d", "dp", "h", "l", "o", "pc"} : k \notin DOMAIN data.f
    THEN RaiseV("KeyError")
    ELSE [kind |-> "quote", price |-> data.f.c, change |-> data.f.d,
          change_pct |-> data.f.dp, high |-> data.f.h, low |-> data.f.l,
          open |-> data.f.o, prev_close |-> data.f.pc]

(***************************************************************************)
(* The upstream: what each source answers in a run.  A source is an        *)
(* adapter and the symbol it is asked for.  An answer is described by its  *)
(* shape and, when it carries bars, by their closes: n closes, all base    *)
(* except alt at the positions at, with or without volumes.                *)
(***************************************************************************)
PolygonSources ==
    {"polygon:SPY", "polygon:I:VIX", "polygon:I:DXY", "polygon:UUP", "polygon:I:US10Y",
     "polygon:TLT", "polygon:X:BTCUSD", "polygon:USO"}

YahooSources ==
    {"yahoo:SPY", "yahoo:^VIX", "yahoo:DX-Y.NYB", "yahoo:^TNX", "yahoo:BTC-USD",
     "yahoo:CL=F"}

Sources == PolygonSources \cup YahooSources

Answer(shape, n, base, alt, at, vol) ==
    [shape |-> shape, n |-> n, base |-> base, alt |-> alt, at |-> at, vol |-> vol]

Down == Answer("down", 0, 0, 0, {}, FALSE)

Malformed(shape) == Answer(shape, 2, 100 * Unit, 0, {}, TRUE)

\* n bars closing at base, the last one at last.
Bars(n, base, last, vol) == Answer("bars", n, base, last, {n}, vol)

Closes(a) == Pattern(a.n, a.base, a.alt, a.at)

\* The first day of every series.
FirstDay == 19 * 1000

PolygonBar(a, k) ==
    JObj([t |-> JNum(FirstDay + k), c |-> JNum(Closes(a)[k]), v |-> JNum(1000)])

PolygonBarNoVolume(a, k) == JObj([t |-> JNum(FirstDay + k), c |-> JNum(Closes(a)[k])])

\* The body fetch_json returns for a Polygon aggregates request.
PolygonBody(a) ==
    CASE a.shape = "down" -> JNull
      [] a.shape = "bars" ->
            JObj([results |-> JArr([k \in 1..a.n |->
                     IF a.vol THEN PolygonBar(a, k) ELSE PolygonBarNoVolume(a, k)])])
      [] a.shape = "no_results" -> JObj([status |-> JStr])
      [] a.shape = "empty_results" -> JObj([status |-> JStr, results |-> JArr(<<>>)])
      [] a.shape = "array_body" -> JArr(<<JStr>>)
      [] a.shape = "results_not_array" -> JObj([results |-> JStr])
      [] a.shape = "bar_without_c" ->
            JObj([results |-> JArr(<<PolygonBar(a, 1),
                                     JObj([t |-> JNum(FirstDay + 2), v |-> JNum(1000)])>>)])
      [] a.shape = "bar_without_t" ->
            JObj([results |-> JArr(<<PolygonBar(a, 1),
                                     JObj([c |-> JNum(a.base), v |-> JNum(1000)])>>)])
      [] a.shape = "t_not_number" ->
            JObj([results |-> JArr(<<PolygonBar(a, 1),
                                     JObj([t |-> JStr, c |-> JNum(a.base)])>>)])

YahooResult(ts, closes) ==
    JObj([timestamp |-> ts,
          indicators |-> JObj([quote |-> JArr(<<JObj([close |-> closes])>>)])])

YahooChart(result) == JObj([chart |-> JObj([result |-> result, error |-> JNull])])

Days(n) == JArr([k \in 1..n |-> JNum(FirstDay + k)])

\* The body fetch_json returns for a Yahoo chart request.
YahooBody(a) ==
    CASE a.shape = "down" -> JNull
      [] a.shape = "bars" ->
            YahooChart(JArr(<<YahooResult(Days(a.n),
                                          JArr([k \in 1..a.n |-> JNum(Closes(a)[k])]))>>))
      [] a.shape = "null_result" -> YahooChart(JNull)
      [] a.shape = "empty_result" -> YahooChart(JArr(<<>>))
      [] a.shape = "no_chart" -> JObj([finance |-> JStr])
      [] a.shape = "no_timestamp" ->
            YahooChart(JArr(<<JObj([indicators |-> JObj([quote |-> JArr(<<>>)])])>>))
      [] a.shape = "null_closes" ->
            YahooChart(JArr(<<YahooResult(Days(a.n), JArr([k \in 1..a.n |-> JNull]))>>))
      [] a.shape = "close_not_number" ->
            YahooChart(JArr(<<YahooResult(Days(a.n), JArr([k \in 1..a.n |-> JStr]))>>))
      [] a.shape = "closes_not_array" ->
            YahooChart(JArr(<<YahooResult(Days(a.n), JNull)>>))

\* A Finnhub quote answer: the price c and the day's change in percent dp
\* (both in hundredths).
Quote(shape, c, dp) == [shape |-> shape, c |-> c, dp |-> dp]

FinnhubBody(a) ==
    CASE a.shape = "down" -> JNull
      [] a.shape = "quote" ->
            JObj([c |-> JNum(a.c), d |-> JNum(0), dp |-> JNum(a.dp), h |-> JNum(a.c),
                  l |-> JNum(a.c), o |-> JNum(a.c), pc |-> JNum(a.c), t |-> JNum(FirstDay)])
      [] a.shape = "null_change" ->
            JObj([c |-> JNum(a.c), d |-> JNull, dp |-> JNull, h |-> JNum(a.c),
                  l |-> JNum(a.c), o |-> JNum(a.c), pc |-> JNum(a.c), t |-> JNum(FirstDay)])
      [] a.shape = "error_body" -> JObj([error |-> JStr])
      [] a.shape = "without_dp" -> JObj([c |-> JNum(a.c), d |-> JNum(0)])
      [] a.shape = "price_not_number" -> JObj([c |-> JStr])
      [] a.shape = "array_body" -> JArr(<<JStr>>)

(***************************************************************************)
(* compute_predictions.  A prediction's rationale is kept as the figures   *)
(* the f-string embeds, each as a count of the last decimal it prints.     *)
(***************************************************************************)
Prediction(name, direction, confidence, horizon, figures, note) ==
    [name |-> name, direction |-> direction, confidence |-> confidence,
     horizon |-> horizon, rationale |-> [figures |-> figures, note |-> note]]

\* A price counted in units, as a fraction of 1.0
Val(v) == Rat(v, Unit)

Mean(vals) == Rat(SumSeq(vals), Len(vals))

\* A Trend Regime whose confidence would be rounded to the nearest integer.
trend_regime_rounded(vals) ==
    LET latest_v == RInt(Last(vals))
        sma20_v == Mean(Tail_k(vals, 20))
        sma50_v == Mean(Tail_k(vals, 50))
        gap == RMul(RAbs(RSub(RDiv(latest_v, sma20_v), RInt(1))), RInt(500))
    IN  Prediction("Trend Regime",
                   IF RLt(sma20_v, latest_v) /\ RLt(sma50_v, sma20_v) THEN "BULLISH"
                   ELSE IF RLt(latest_v, sma20_v) /\ RLt(sma20_v, sma50_v) THEN "BEARISH"
                   ELSE "NEUTRAL",
                   IF (RLt(sma20_v, latest_v) /\ RLt(sma50_v, sma20_v))
                      \/ (RLt(latest_v, sma20_v) /\ RLt(sma20_v, sma50_v))
                   THEN Min2(85, 60 + Round(gap, 0)) ELSE 45,
                   "1-2 weeks", <<>>, "")

\* Trend Regime: the latest value against the 20- and 50-day averages.
trend_regime(vals) ==
    LET latest == RInt(Last(vals))
        sma20 == Mean(Tail_k(vals, 20))
        sma50 == Mean(Tail_k(vals, 50))
        figures == <<Round(Val(Last(vals)), 2), Round(RDiv(sma20, RInt(Unit)), 2),
                     Round(RDiv(sma50, RInt(Unit)), 2)>>
    IN  IF RLt(sma20, latest) /\ RLt(sma50, sma20)
        THEN Prediction("Trend Regime", "BULLISH",
                        Min2(85, 60 + Trunc(RMul(RSub(RDiv(latest, sma20), RInt(1)),
                                                 RInt(500)))),
                        "1-2 weeks", figures, "")
        ELSE IF RLt(latest, sma20) /\ RLt(sma20, sma50)
        THEN Prediction("Trend Regime", "BEARISH",
                        Min2(85, 60 + Trunc(RMul(RSub(RInt(1), RDiv(latest, sma20)),
                                                 RInt(500)))),
                        "1-2 weeks", figures, "")
        ELSE Prediction("Trend Regime", "NEUTRAL", 45, "1-2 weeks", figures, "")

\* Volatility Regime: the latest VIX against 15 and 25.
volatility_regime(vix_vals) ==
    LET vix_now == Last(vix_vals)
        vix_sma == RDiv(Mean(Tail_k(vix_vals, 20)), RInt(Unit))
        vol_conf == Min2(80, 50 + Trunc(RMul(RAbs(RSub(Val(vix_now), vix_sma)), RInt(3))))
        figures == <<Round(Val(vix_now), 1), Round(vix_sma, 1)>>
    IN  IF vix_now < 15 * Unit
        THEN Prediction("Volatility Regime", "BULLISH", vol_conf, "1 week", figures,
                        "Low vol regime")
        ELSE IF vix_now > 25 * Unit
        THEN Prediction("Volatility Regime", "BEARISH", vol_conf, "1 week", figures,
                        "Elevated fear")
        ELSE Prediction("Volatility Regime", "NEUTRAL", vol_conf, "1 week", figures,
                        "Normal volatility range")

\* Pulse Momentum: the mean and the drift of the last five scores (tenths).
pulse_momentum(pulse_scores) ==
    LET recent == Tail_k(pulse_scores, 5)
        avg == Rat(SumSeq(recent), 10 * Len(recent))
        trend == Rat(Last(recent) - recent[1], 10)
        conf == Min2(75, 40 + Trunc(RMul(RAbs(RSub(avg, RInt(50))), Rat(8, 10))))
        figures == <<Round(avg, 1), Round(trend, 1)>>
        dir == IF RLt(RInt(65), avg) /\ trend.n > 0 THEN "BULLISH"
               ELSE IF RLt(avg, RInt(35)) /\ trend.n < 0 THEN "BEARISH"
               ELSE IF RLt(RInt(60), avg) THEN "BULLISH"
               ELSE IF RLt(avg, RInt(40)) THEN "BEARISH"
               ELSE "NEUTRAL"
        note == IF RLt(RInt(65), avg) /\ trend.n > 0 THEN "Momentum accelerating"
                ELSE IF RLt(avg, RInt(35)) /\ trend.n < 0 THEN "Momentum deteriorating"
                ELSE IF RLt(RInt(60), avg) THEN "Positive pulse"
                ELSE IF RLt(avg, RInt(40)) THEN "Negative pulse"
                ELSE "Mixed signals"
    IN  Prediction("Pulse Momentum", dir, conf, "3-5 days", figures, note)

\* compute_predictions(spy_data, vix_data, pulse_scores); pulse_scores is
\* what compute_pulse_score returned (None or the scores).
compute_predictions(spy_data, vix_data, pulse_scores) ==
    (IF spy_data.kind = "series" /\ Len(spy_data.values) >= 50
     THEN <<trend_regime(spy_data.values)>> ELSE <<>>)
    \o (IF vix_data.kind = "series" /\ Len(vix_data.values) >= 20
        THEN <<volatility_regime(vix_data.values)>> ELSE <<>>)
    \o (IF pulse_scores.kind = "scores" /\ Len(pulse_scores.scores) >= 5
        THEN <<pulse_momentum(pulse_scores.scores)>> ELSE <<>>)

(***************************************************************************)
(* The resolvers.  Each tries its sources in the order of the code; a      *)
(* resolver's k-th try sees what the adapter returned (r) and either       *)
(* returns a series, goes on to its next source, or returns None.          *)
(***************************************************************************)
Config ==
    [spy |-> <<"polygon:SPY", "yahoo:SPY">>,
     vix |-> <<"polygon:I:VIX", "yahoo:^VIX">>,
     dxy |-> <<"polygon:I:DXY", "yahoo:DX-Y.NYB", "polygon:UUP">>,
     tnx |-> <<"polygon:I:US10Y", "yahoo:^TNX", "polygon:TLT">>,
     btc |-> <<"polygon:X:BTCUSD", "yahoo:BTC-USD">>,
     oil |-> <<"yahoo:CL=F", "polygon:USO">>]

Indicators == {"spy", "vix", "dxy", "tnx", "btc", "oil"}

\* An acceptance after which the resolver would go on to its next source.
ReturnAndGoOn(series) == [stop |-> FALSE, accept |-> TRUE, value |-> series]

Return(series) == [stop |-> TRUE, accept |-> TRUE, value |-> series]

Continue == [stop |-> FALSE, accept |-> FALSE, value |-> None]

ReturnNone == [stop |-> TRUE, accept |-> FALSE, value |-> None]

\* agg and agg["values"]
HasValues(r) == r.kind = "series" /\ r.values # <<>>

\* main, lines 403-406: spy_agg = polygon_aggs("SPY"), else _yahoo_chart("SPY")
main_spy(k, r) ==
    IF k = 1 THEN (IF r.kind = "series" THEN Return(r) ELSE Continue)
    ELSE (IF r.kind = "series" THEN Return(r) ELSE ReturnNone)

\* main, lines 418-421
main_btc(k, r) ==
    IF k = 1 THEN (IF r.kind = "series" THEN Return(r) ELSE Continue)
    ELSE (IF r.kind = "series" THEN Return(r) ELSE ReturnNone)

fetch_vix(k, r) ==
    IF k = 1
    THEN (IF HasValues(r) /\ Last(r.values) > 5 * Unit THEN Return(r) ELSE Continue)
    ELSE (IF HasValues(r) /\ Last(r.values) > 5 * Unit THEN Return(r) ELSE ReturnNone)

\* round(v * 3.93, 2)
scale_uup(v) == RoundHalfEven(v * 393, 100 * 1000) * 1000

fetch_dxy(k, r) ==
    IF k = 1
    THEN (IF HasValues(r) /\ Last(r.values) > 50 * Unit THEN Return(r) ELSE Continue)
    ELSE IF k = 2
    THEN (IF HasValues(r) /\ Last(r.values) > 50 * Unit THEN Return(r) ELSE Continue)
    ELSE (IF HasValues(r)
          THEN Return([r EXCEPT !.values = [j \in 1..Len(r.values) |-> scale_uup(r.values[j])],
                                !.is_proxy = TRUE])
          ELSE ReturnNone)

\* round(v / 10, 3)
tenth(v) == RoundHalfEven(v, 10 * 100) * 100

InYieldRange(v) == 5 * Unit < 10 * v /\ v < 15 * Unit

fetch_treasury_10y(k, r) ==
    IF k = 1
    THEN (IF HasValues(r) /\ InYieldRange(Last(r.values)) THEN Return(r) ELSE Continue)
    ELSE IF k = 2
    THEN (IF HasValues(r)
          THEN LET values == IF Last(r.values) > 10 * Unit
                             THEN [j \in 1..Len(r.values) |-> tenth(r.values[j])]
                             ELSE r.values
               IN  IF InYieldRange(Last(values))
                   THEN Return([r EXCEPT !.values = values])
                   ELSE Continue
          ELSE Continue)
    ELSE ReturnNone

\* A fetch_crude_oil that returns the USO series without marking it.
fetch_crude_oil_unmarked(k, r) ==
    IF HasValues(r) /\ Last(r.values) > 10 * Unit THEN Return(r)
    ELSE IF k = 1 THEN Continue ELSE ReturnNone

fetch_crude_oil(k, r) ==
    IF k = 1
    THEN (IF HasValues(r) /\ Last(r.values) > 10 * Unit THEN Return(r) ELSE Continue)
    ELSE (IF HasValues(r) /\ Last(r.values) > 10 * Unit
          THEN Return([r EXCEPT !.is_proxy = TRUE])
          ELSE ReturnNone)

Decide(ind, k, r) ==
    CASE ind = "spy" -> main_spy(k, r)
      [] ind = "vix" -> fetch_vix(k, r)
      [] ind = "dxy" -> fetch_dxy(k, r)
      [] ind = "tnx" -> fetch_treasury_10y(k, r)
      [] ind = "btc" -> main_btc(k, r)
      [] ind = "oil" -> fetch_crude_oil(k, r)

(***************************************************************************)
(* main.  The state of a run: where it is (pc, and the number of the next  *)
(* source to try inside a resolver), the series resolved so far (agg, None *)
(* until resolved), which source each came from (origin, the source the    *)
(* resolver's log line names), the sources asked (attempted), the files    *)
(* written, and the exception that ended it, if any.                       *)
(***************************************************************************)
VARIABLES args, ret, phase

callVars == <<args, ret, phase>>

\* How far time and reruns are followed.
MaxTime == 2

MaxRuns == 2

VARIABLES env, upstream, quotes, clock, run, pc, try, agg, origin, attempted,
          now, pulse_scores, files, exc, prev

\* A call of fetch_json or fetch_text at work: its retries argument, the loop
\* variable attempt, where it is, the requests opened and how each ended,
\* the sleeps taken and, once returned, the result.
VARIABLE transport

NoFetch ==
    [fn |-> "none", retries |-> 0, attempt |-> 0, at |-> "idle", outcomes |-> <<>>,
     slept |-> <<>>, result |-> "None"]

mainVars == <<env, upstream, quotes, clock, run, pc, try, agg, origin, attempted,
              now, pulse_scores, files, exc, prev, transport>>

SECTORS ==
    << <<"XLK", "Technology">>, <<"XLF", "Financials">>, <<"XLE", "Energy">>,
       <<"XLV", "Healthcare">>, <<"XLI", "Industrials">>, <<"XLY", "Cons. Disc.">>,
       <<"XLP", "Cons. Staples">>, <<"XLU", "Utilities">>, <<"XLRE", "Real Estate">>,
       <<"XLC", "Comms">>, <<"XLB", "Materials">> >>

WATCHLIST == <<"TSLA", "PLTR", "AMZN", "HOOD", "SOFI", "RIVN", "NIO">>

QuoteSymbols == {SECTORS[k][1] : k \in 1..Len(SECTORS)} \cup {WATCHLIST[k] : k \in 1..Len(WATCHLIST)}

Stages ==
    <<"start", "spy", "vix", "dxy", "tnx", "btc", "oil", "metrics", "sectors",
      "watchlist", "volatility", "pulse", "predictions", "macro", "summary", "done">>

StageAfter(p) == Stages[(CHOOSE k \in 1..Len(Stages) : Stages[k] = p) + 1]

NoException == [type |-> "", where |-> ""]

File(name, last_updated, body) ==
    [name |-> name, last_updated |-> last_updated, body |-> body]

\* What the adapter of source src returns in this run.
AdapterResult(src) ==
    IF src \in PolygonSources
    THEN polygon_aggs(env.POLYGON_KEY, PolygonBody(upstream[src]))
    ELSE _yahoo_chart(YahooBody(upstream[src]))

AdapterOf(src) == IF src \in PolygonSources THEN "polygon_aggs" ELSE "_yahoo_chart"

Crash(type, where) ==
    /\ exc' = [type |-> type, where |-> where]
    /\ pc' = "crashed"

\* main, lines 395-397: the run reads the wall clock for last_updated.
Start ==
    /\ pc = "start"
    /\ now' = clock
    /\ pc' = StageAfter(pc)
    /\ UNCHANGED <<transport, args, ret, phase, env, upstream, quotes, clock, run, try, agg, origin, attempted,
                   pulse_scores, files, exc, prev>>

\* One try of the resolver of indicator ind: its next source is asked.
Resolve(ind) ==
    /\ pc = ind
    /\ try \in 1..Len(Config[ind])
    /\ LET src == Config[ind][try]
           r == AdapterResult(src)
           d == Decide(ind, try, r)
       IN  /\ attempted' = [attempted EXCEPT ![ind] = Append(@, src)]
           /\ IF r.kind = "raise"
              THEN /\ Crash(r.exc, AdapterOf(src))
                   /\ UNCHANGED <<agg, origin, try>>
              ELSE /\ agg' = [agg EXCEPT ![ind] = d.value]
                   /\ origin' = [origin EXCEPT ![ind] = IF d.accept THEN src ELSE @]
                   /\ pc' = IF d.stop THEN StageAfter(ind) ELSE ind
                   /\ try' = IF d.stop THEN 1 ELSE try + 1
                   /\ exc' = exc
    /\ UNCHANGED <<transport, args, ret, phase, env, upstream, quotes, clock, run, now, pulse_scores, files, prev>>

ResolveSpy == Resolve("spy")

FetchVix == Resolve("vix")

FetchDxy == Resolve("dxy")

FetchTreasury10y == Resolve("tnx")

ResolveBtc == Resolve("btc")

FetchCrudeOil == Resolve("oil")

InRange(lo, v, hi) == lo * Unit < v /\ v < hi * Unit

\* main, lines 427-467: the indicators that get a key in metrics
MetricsKeys ==
    {k \in Indicators :
        /\ HasValues(agg[k])
        /\ CASE k = "vix" -> InRange(5, Last(agg[k].values), 100)
             [] k = "dxy" -> InRange(80, Last(agg[k].values), 130)
             [] k = "tnx" -> InYieldRange(Last(agg[k].values))
             [] k = "oil" -> InRange(20, Last(agg[k].values), 200)
             [] OTHER -> TRUE}

MetricsKey(k) ==
    CASE k = "spy" -> "SPY" [] k = "vix" -> "VIX" [] k = "dxy" -> "DXY"
      [] k = "tnx" -> "TNX" [] k = "btc" -> "BTC" [] k = "oil" -> "CL"

metrics == [k \in {MetricsKey(i) : i \in MetricsKeys} |->
               LET i == CHOOSE i \in MetricsKeys : MetricsKey(i) = k
               IN  [values |-> Tail_k(agg[i].values, 30)]]

WriteFile(name, body) == files' = Append(files, File(name, now, body))

WriteMetrics ==
    /\ pc = "metrics"
    /\ WriteFile("metrics.json", metrics)
    /\ pc' = StageAfter(pc)
    /\ UNCHANGED <<transport, args, ret, phase, env, upstream, quotes, clock, run, try, agg, origin, attempted,
                   now, pulse_scores, exc, prev>>

QuoteOf(symbol) == finnhub_quote(env.FINNHUB_KEY, FinnhubBody(quotes[symbol]))

\* The quote requests of a loop that raise, by position.
RaisingAt(symbols) == {k \in 1..Len(symbols) : QuoteOf(symbols[k]).kind = "raise"}

FirstOf(S) == CHOOSE k \in S : \A j \in S : k <= j

SectorSymbols == [k \in 1..Len(SECTORS) |-> SECTORS[k][1]]

sectors_data ==
    LET got == {k \in 1..Len(SECTORS) : QuoteOf(SECTORS[k][1]).kind = "quote"}
    IN  [name \in {SECTORS[k][2] : k \in got} |->
            LET k == CHOOSE k \in got : SECTORS[k][2] = name
                q == QuoteOf(SECTORS[k][1])
            IN  [symbol |-> SECTORS[k][1], price |-> q.price, change_pct |-> q.change_pct]]

\* main, lines 473-483: one quote per sector, then sectors.json
WriteSectors ==
    /\ pc = "sectors"
    /\ IF RaisingAt(SectorSymbols) # {}
       THEN /\ Crash(QuoteOf(SectorSymbols[FirstOf(RaisingAt(SectorSymbols))]).exc,
                     "finnhub_quote")
            /\ UNCHANGED files
       ELSE /\ WriteFile("sectors.json", sectors_data)
            /\ pc' = StageAfter(pc)
            /\ exc' = exc
    /\ UNCHANGED <<transport, args, ret, phase, env, upstream, quotes, clock, run, try, agg, origin, attempted,
                   now, pulse_scores, prev>>

\* q["change_pct"] and q["change_pct"] > 1.5, and its mirror
signal_of(change_pct) ==
    IF Truthy(change_pct) /\ change_pct.n > 150 THEN "BULLISH"
    ELSE IF Truthy(change_pct) /\ change_pct.n < -150 THEN "BEARISH"
    ELSE "NEUTRAL"

RECURSIVE stocks_from(_)
stocks_from(k) ==
    IF k > Len(WATCHLIST) THEN <<>>
    ELSE LET q == QuoteOf(WATCHLIST[k])
         IN  (IF q.kind = "quote"
              THEN <<[ticker |-> WATCHLIST[k], price |-> q.price,
                      change_pct |-> q.change_pct, volume |-> JNull,
                      signal |-> signal_of(q.change_pct), notes |-> ""]>>
              ELSE <<>>) \o stocks_from(k + 1)

\* main, lines 487-507
WriteWatchlist ==
    /\ pc = "watchlist"
    /\ IF RaisingAt(WATCHLIST) # {}
       THEN /\ Crash(QuoteOf(WATCHLIST[FirstOf(RaisingAt(WATCHLIST))]).exc, "finnhub_quote")
            /\ UNCHANGED files
       ELSE /\ WriteFile("watchlist.json", stocks_from(1))
            /\ pc' = StageAfter(pc)
            /\ exc' = exc
    /\ UNCHANGED <<transport, args, ret, phase, env, upstream, quotes, clock, run, try, agg, origin, attempted,
                   now, pulse_scores, prev>>

\* main, lines 511-520: the VIX history and its 20-day average (2 decimals)
vol_data ==
    IF HasValues(agg.vix)
    THEN LET vals == agg.vix.values
             from == IF Len(vals) >= 20 THEN 19..(Len(vals) - 1) ELSE {}
         IN  [vix_history |-> [dates |-> agg.vix.dates, values |-> vals],
              vix_sma |->
                 [dates |-> [k \in 1..Cardinality(from) |-> agg.vix.dates[k + 19]],
                  values |-> [k \in 1..Cardinality(from) |->
                                 Round(RDiv(Mean(SubSeq(vals, k, k + 19)), RInt(Unit)), 2)]]]
    ELSE [key \in {} |-> None]

WriteVolatility ==
    /\ pc = "volatility"
    /\ WriteFile("volatility.json", vol_data)
    /\ pc' = StageAfter(pc)
    /\ UNCHANGED <<transport, args, ret, phase, env, upstream, quotes, clock, run, try, agg, origin, attempted,
                   now, pulse_scores, exc, prev>>

\* main, lines 526-530: the dates are the last len(scores) dates of SPY
pulse_data(scores) ==
    IF scores.kind = "scores" /\ scores.scores # <<>> /\ agg.spy.kind = "series"
    THEN [dates |-> Slice(agg.spy.dates, Len(agg.spy.dates) - Len(scores.scores),
                          Len(agg.spy.dates)),
          scores |-> scores.scores]
    ELSE [dates |-> <<>>, scores |-> <<>>]

WritePulse ==
    /\ pc = "pulse"
    /\ LET scores == compute_pulse_score(agg.spy, agg.vix)
       IN  IF scores.kind = "raise"
           THEN /\ Crash(scores.exc, "compute_pulse_score")
                /\ UNCHANGED <<files, pulse_scores>>
           ELSE /\ pulse_scores' = scores
                /\ WriteFile("pulse.json", pulse_data(scores))
                /\ pc' = StageAfter(pc)
                /\ exc' = exc
    /\ UNCHANGED <<transport, args, ret, phase, env, upstream, quotes, clock, run, try, agg, origin, attempted,
                   now, prev>>

WritePredictions ==
    /\ pc = "predictions"
    /\ WriteFile("predictions.json", compute_predictions(agg.spy, agg.vix, pulse_scores))
    /\ pc' = StageAfter(pc)
    /\ UNCHANGED <<transport, args, ret, phase, env, upstream, quotes, clock, run, try, agg, origin, attempted,
                   now, pulse_scores, exc, prev>>

Note(text, figure) == [text |-> text, figure |-> figure]

\* Notes that would open with the time of the run.
macro_notes_stamped_first(stamp) ==
    <<Note("Last run", stamp), Note("Pipeline v2", 0), Note("VIX data unavailable", 0)>>

\* main, lines 540-573; stamp is the wall clock read for the last note
macro_notes(stamp) ==
    (IF HasValues(agg.vix)
     THEN (IF Last(agg.vix.values) > 25 * Unit
           THEN <<Note("VIX elevated", Round(Val(Last(agg.vix.values)), 1))>>
           ELSE IF Last(agg.vix.values) < 14 * Unit
           THEN <<Note("VIX complacency", Round(Val(Last(agg.vix.values)), 1))>>
           ELSE <<Note("VIX normal range", Round(Val(Last(agg.vix.values)), 1))>>)
     ELSE <<Note("VIX data unavailable", 0)>>)
    \o (IF agg.spy.kind = "series" /\ Len(agg.spy.values) >= 50
        THEN LET sma50 == Mean(Tail_k(agg.spy.values, 50))
             IN  IF RLt(sma50, RInt(Last(agg.spy.values)))
                 THEN <<Note("S&P 500 above 50-day MA", Round(RDiv(sma50, RInt(Unit)), 0))>>
                 ELSE <<Note("S&P 500 below 50-day MA", Round(RDiv(sma50, RInt(Unit)), 0))>>
        ELSE <<>>)
    \o (IF HasValues(agg.tnx)
        THEN <<Note("10Y Treasury Yield", Round(Val(Last(agg.tnx.values)), 2))>> ELSE <<>>)
    \o (IF HasValues(agg.dxy)
        THEN <<Note("US Dollar Index (DXY)", Round(Val(Last(agg.dxy.values)), 2))>> ELSE <<>>)
    \o (IF HasValues(agg.oil)
        THEN <<Note("WTI Crude Oil", Round(Val(Last(agg.oil.values)), 2))>> ELSE <<>>)
    \o <<Note("Pipeline v2", 0)>>
    \o <<Note("Last run", stamp)>>

WriteMacro ==
    /\ pc = "macro"
    /\ \E t \in clock..clock + 1 :
          /\ t <= MaxTime
          /\ clock' = t
          /\ WriteFile("macro.json", macro_notes(t))
    /\ pc' = StageAfter(pc)
    /\ UNCHANGED <<transport, args, ret, phase, env, upstream, quotes, run, try, agg, origin, attempted,
                   now, pulse_scores, exc, prev>>

\* main, lines 577-596: the summary is printed and main returns.
Summary ==
    /\ pc = "summary"
    /\ pc' = StageAfter(pc)
    /\ UNCHANGED <<transport, args, ret, phase, env, upstream, quotes, clock, run, try, agg, origin, attempted,
                   now, pulse_scores, files, exc, prev>>

\* The scheduler starts the script again; the upstream answers as before.
Rerun ==
    /\ pc \in {"done", "crashed"}
    /\ run < MaxRuns
    /\ run' = run + 1
    /\ prev' = [files |-> files, pc |-> pc]
    /\ pc' = "start"
    /\ try' = 1
    /\ agg' = [i \in Indicators |-> None]
    /\ origin' = [i \in Indicators |-> "none"]
    /\ attempted' = [i \in Indicators |-> <<>>]
    /\ pulse_scores' = NoResult
    /\ files' = <<>>
    /\ exc' = NoException
    /\ \E t \in clock..clock + 1 :
          /\ t <= MaxTime
          /\ clock' = t
    /\ UNCHANGED <<transport, args, ret, phase, env, upstream, quotes, now>>

(***************************************************************************)
(* The runs explored.  One nominal upstream, in which every indicator      *)
(* resolves and the run completes, and the upstreams that depart from it   *)
(* in the sources of one indicator (of SPY and VIX together for the pulse  *)
(* score), in the quotes, or in the API keys.                              *)
(***************************************************************************)
Both == [POLYGON_KEY |-> TRUE, FINNHUB_KEY |-> TRUE]

Environments == [POLYGON_KEY : BOOLEAN, FINNHUB_KEY : BOOLEAN]

Nominal ==
    [s \in Sources |->
        CASE s = "polygon:SPY" -> Bars(51, 100 * Unit, 101 * Unit, TRUE)
          [] s = "yahoo:SPY" -> Bars(21, 100 * Unit + 4, 99 * Unit, FALSE)
          [] s = "yahoo:^VIX" -> Bars(50, 18 * Unit, 19 * Unit, FALSE)
          [] s = "yahoo:DX-Y.NYB" -> Bars(4, 104 * Unit, 103 * Unit, FALSE)
          [] s = "polygon:UUP" -> Bars(4, 27 * Unit, 28 * Unit, TRUE)
          [] s = "yahoo:^TNX" -> Bars(4, 45 * Unit, 44 * Unit, FALSE)
          [] s = "polygon:TLT" -> Bars(4, 90 * Unit, 91 * Unit, TRUE)
          [] s = "polygon:X:BTCUSD" -> Bars(31, 100 * Unit, 101 * Unit, TRUE)
          [] s = "yahoo:BTC-USD" -> Bars(4, 100 * Unit, 102 * Unit, FALSE)
          [] s = "yahoo:CL=F" -> Bars(4, 70 * Unit, 71 * Unit, FALSE)
          [] s = "polygon:USO" -> Bars(4, 75 * Unit, 76 * Unit, TRUE)
          [] OTHER -> Down]

\* The answers a source may give in place of its nominal one.
Answers ==
    [s \in Sources |->
        CASE s = "polygon:SPY" ->
                {Down, Malformed("bar_without_c"), Malformed("empty_results"),
                 Bars(19, 100 * Unit, 101 * Unit, TRUE),
                 Answer("bars", 21, 100 * Unit, 0, {1}, TRUE),
                 Answer("bars", 21, 100 * Unit, 0, {21}, TRUE),
                 Answer("bars", 51, 100 * Unit, 110 * Unit, 40..51, FALSE)}
          [] s = "yahoo:SPY" -> {Down, Malformed("null_result")}
          [] s = "polygon:I:VIX" ->
                {Bars(50, 18 * Unit, 150 * Unit, TRUE), Bars(50, 18 * Unit, 3 * Unit, TRUE),
                 Bars(50, 18 * Unit, 20 * Unit, TRUE), Malformed("array_body")}
          [] s = "yahoo:^VIX" ->
                {Down, Bars(50, 18 * Unit, 150 * Unit, FALSE), Malformed("close_not_number"),
                 Bars(22, 30 * Unit, 12 * Unit, FALSE), Bars(60, 12 * Unit, 13 * Unit, FALSE)}
          [] s = "polygon:I:DXY" ->
                {Bars(4, 104 * Unit, 105 * Unit, TRUE), Bars(4, 104 * Unit, 160 * Unit, TRUE),
                 Bars(4, 104 * Unit, 40 * Unit, TRUE)}
          [] s = "yahoo:DX-Y.NYB" ->
                {Down, Bars(4, 104 * Unit, 60 * Unit, FALSE), Malformed("no_timestamp")}
          [] s = "polygon:UUP" ->
                {Down, Bars(4, 27 * Unit, 10 * Unit, TRUE), Malformed("t_not_number")}
          [] s = "polygon:I:US10Y" ->
                {Bars(4, (45 * Unit) \div 10, (46 * Unit) \div 10, TRUE),
                 Bars(4, (45 * Unit) \div 10, 20 * Unit, TRUE)}
          [] s = "yahoo:^TNX" ->
                {Down, Bars(4, 45 * Unit, 8 * Unit, FALSE), Bars(4, 45 * Unit, 3 * Unit, FALSE),
                 Bars(4, 45 * Unit, 160 * Unit, FALSE), Malformed("empty_result")}
          [] s = "polygon:TLT" -> {Down}
          [] s = "polygon:X:BTCUSD" -> {Down, Malformed("bar_without_t")}
          [] s = "yahoo:BTC-USD" -> {Down, Malformed("closes_not_array")}
          [] s = "yahoo:CL=F" ->
                {Down, Bars(4, 70 * Unit, 15 * Unit, FALSE), Bars(4, 70 * Unit, 5 * Unit, FALSE),
                 Bars(4, 70 * Unit, 250 * Unit, FALSE), Malformed("null_closes")}
          [] s = "polygon:USO" ->
                {Down, Bars(4, 75 * Unit, 15 * Unit, TRUE), Bars(4, 75 * Unit, 8 * Unit, TRUE),
                 Malformed("results_not_array")}]

\* The upstreams that differ from Nominal on the sources S only.
Departing(S) ==
    {[s \in Sources |-> IF s \in S THEN g[s] ELSE Nominal[s]] :
        g \in {h \in [S -> UNION {Answers[s] \cup {Nominal[s]} : s \in S}] :
                  \A s \in S : h[s] \in Answers[s] \cup {Nominal[s]}}}

SourcesOf(ind) == {Config[ind][k] : k \in 1..Len(Config[ind])}

Upstreams ==
    UNION {Departing(SourcesOf(ind)) : ind \in Indicators}
    \cup Departing({"polygon:SPY", "yahoo:^VIX"})

NominalQuote == Quote("quote", 100 * 100, 50)

\* The quote answers that differ from the nominal one for one symbol.
QuoteAnswers ==
    {Quote("down", 0, 0), Quote("quote", 100 * 100, 250), Quote("quote", 100 * 100, -250),
     Quote("quote", 0, 0), Quote("null_change", 100 * 100, 0), Quote("error_body", 0, 0),
     Quote("without_dp", 100 * 100, 0), Quote("price_not_number", 0, 0),
     Quote("array_body", 0, 0)}

QuoteScenarios ==
    {[s \in QuoteSymbols |-> NominalQuote], [s \in QuoteSymbols |-> Quote("down", 0, 0)]}
    \cup {[s \in QuoteSymbols |-> IF s = one THEN a ELSE NominalQuote] :
             one \in {"XLE", "TSLA", "NIO"}, a \in QuoteAnswers}

Scenarios ==
    {[env |-> Both, upstream |-> u, quotes |-> [s \in QuoteSymbols |-> NominalQuote]] :
        u \in Upstreams}
    \cup {[env |-> Both, upstream |-> Nominal, quotes |-> q] : q \in QuoteScenarios}
    \cup {[env |-> e, upstream |-> Nominal, quotes |-> [s \in QuoteSymbols |-> NominalQuote]] :
             e \in Environments}

NoCall == [spy_data |-> None, vix_data |-> None]

Init ==
    /\ \E sc \in Scenarios :
          /\ env = sc.env
          /\ upstream = sc.upstream
          /\ quotes = sc.quotes
    /\ clock = 0
    /\ run = 1
    /\ pc = "start"
    /\ try = 1
    /\ agg = [i \in Indicators |-> None]
    /\ origin = [i \in Indicators |-> "none"]
    /\ attempted = [i \in Indicators |-> <<>>]
    /\ now = 0
    /\ pulse_scores = NoResult
    /\ files = <<>>
    /\ exc = NoException
    /\ prev = [files |-> <<>>, pc |-> "none"]
    /\ transport = NoFetch
    /\ args = NoCall
    /\ ret = NoResult
    /\ phase = "idle"

Next ==
    \/ Start
    \/ ResolveSpy
    \/ FetchVix
    \/ FetchDxy
    \/ FetchTreasury10y
    \/ ResolveBtc
    \/ FetchCrudeOil
    \/ WriteMetrics
    \/ WriteSectors
    \/ WriteWatchlist
    \/ WriteVolatility
    \/ WritePulse
    \/ WritePredictions
    \/ WriteMacro
    \/ Summary
    \/ Rerun

vars == <<env, upstream, quotes, clock, run, pc, try, agg, origin, attempted,
          now, pulse_scores, files, exc, prev, args, ret, phase, transport>>

Spec == Init /\ [][Next]_vars

(***************************************************************************)
(* Claims about the resolvers, the adapters and main (Spec).               *)
(***************************************************************************)
StageIndex(p) == CHOOSE k \in 1..Len(Stages) : Stages[k] = p

\* The resolver of ind has returned in the current run.
Resolved(ind) ==
    /\ \E k \in 1..Len(Stages) : Stages[k] = pc
    /\ StageIndex(pc) > StageIndex(ind)

RangeChecked == {"vix", "dxy", "tnx", "oil"}

\* The plausibility range of an indicator.
Plausible(ind, v) ==
    CASE ind = "vix" -> InRange(5, v, 100)
      [] ind = "dxy" -> InRange(80, v, 130)
      [] ind = "tnx" -> InYieldRange(v)
      [] ind = "oil" -> InRange(20, v, 200)
      [] OTHER -> TRUE

\* A reported value in the indicator's units: ^TNX reports the yield times
\* ten, UUP is brought to the dollar index by its scale constant.
InUnits(src, v) ==
    CASE src = "yahoo:^TNX" -> tenth(v)
      [] src = "polygon:UUP" -> scale_uup(v)
      [] OTHER -> v

\* The k-th source of ind answers with a series whose last value is inside
\* (Valid) or outside (Invalid) the indicator's range.
SourceValid(ind, k) ==
    LET r == AdapterResult(Config[ind][k])
    IN  HasValues(r) /\ Plausible(ind, InUnits(Config[ind][k], Last(r.values)))

SourceInvalid(ind, k) ==
    LET r == AdapterResult(Config[ind][k])
    IN  HasValues(r) /\ ~Plausible(ind, InUnits(Config[ind][k], Last(r.values)))

\* C1: when the first source of a range-checked indicator returns a series
\* whose last value is outside the range and a later source returns one
\* whose last value is inside it, the resolver returns the series of such a
\* later source, never that of the first.
C1_LaterValidSourceWins ==
    \A ind \in RangeChecked :
        (/\ Resolved(ind)
         /\ SourceInvalid(ind, 1)
         /\ \E k \in 2..Len(Config[ind]) : SourceValid(ind, k))
        => /\ agg[ind].kind = "series"
           /\ origin[ind] # Config[ind][1]
           /\ \E k \in 2..Len(Config[ind]) :
                 SourceValid(ind, k) /\ origin[ind] = Config[ind][k]

MetricsWritten == Len(files) >= 1 /\ files[1].name = "metrics.json"

\* C2: if every source of an indicator returns no data or a series whose
\* last value fails the range, metrics has no key for it; and a key that is
\* present holds values whose last one is inside the range.
C2_AbsentUnlessPlausible ==
    MetricsWritten =>
        \A ind \in Indicators :
            /\ (\A k \in 1..Len(Config[ind]) : ~SourceValid(ind, k))
                  => MetricsKey(ind) \notin DOMAIN files[1].body
            /\ MetricsKey(ind) \in DOMAIN files[1].body
                  => /\ files[1].body[MetricsKey(ind)].values # <<>>
                     /\ Plausible(ind, Last(files[1].body[MetricsKey(ind)].values))

\* What ^TNX reported in this run.
Reported == AdapterResult("yahoo:^TNX")

\* C3: whenever fetch_treasury_10y has asked ^TNX and got values, it accepts
\* them exactly when a tenth of the last reported value is inside (0.5, 15),
\* and the series it then returns is a tenth of every reported value,
\* whatever the reported values (8.0 becomes 0.8).
C3_TnxAlwaysDivided ==
    (/\ Resolved("tnx")
     /\ Len(attempted.tnx) >= 2
     /\ HasValues(Reported))
    => /\ origin.tnx = "yahoo:^TNX" <=> InYieldRange(tenth(Last(Reported.values)))
       /\ origin.tnx = "yahoo:^TNX" =>
             agg.tnx.values = [j \in 1..Len(Reported.values) |-> tenth(Reported.values[j])]

Proxies == {"polygon:UUP", "polygon:USO"}

\* The scale constants the code documents, in hundredths.
DocumentedFactors == {393}

\* v times f hundredths, to 2 decimals
Scaled(f, v) == Round(RMul(Rat(f, 100), Val(v)), 2) * (Unit \div 100)

\* C4 as stated: a series returned from a proxy (UUP, USO) has every value
\* multiplied by a documented scale factor and carries is_proxy; a series
\* from any other source does not carry is_proxy.
C4_ProxiesScaledAndMarked ==
    \A ind \in Indicators :
        (Resolved(ind) /\ agg[ind].kind = "series") =>
            IF origin[ind] \in Proxies
            THEN /\ agg[ind].is_proxy
                 /\ \E f \in DocumentedFactors :
                       agg[ind].values =
                          [j \in 1..Len(agg[ind].values) |->
                              Scaled(f, AdapterResult(origin[ind]).values[j])]
            ELSE ~agg[ind].is_proxy

\* C4 amended: a series returned from UUP has every value multiplied by 3.93
\* and rounded to 2 decimals, with no range check in the resolver; a series
\* returned from USO has the values as reported, the last of them above 10;
\* both carry is_proxy, and a series from any other source does not.
C4_UupScaledUsoAsReported ==
    \A ind \in Indicators :
        (Resolved(ind) /\ agg[ind].kind = "series") =>
            CASE origin[ind] = "polygon:UUP" ->
                    /\ agg[ind].is_proxy
                    /\ agg[ind].values =
                          [j \in 1..Len(agg[ind].values) |->
                              Scaled(393, AdapterResult(origin[ind]).values[j])]
              [] origin[ind] = "polygon:USO" ->
                    /\ agg[ind].is_proxy
                    /\ agg[ind].values = AdapterResult(origin[ind]).values
                    /\ Last(agg[ind].values) > 10 * Unit
              [] OTHER -> ~agg[ind].is_proxy

\* Crude oil resolved from USO.
C4_Witness ==
    /\ Resolved("oil")
    /\ origin.oil = "polygon:USO"
    /\ agg.oil.kind = "series"
    /\ Len(attempted.oil) = 2

IsPrefix(s, t) == Len(s) <= Len(t) /\ \A k \in 1..Len(s) : s[k] = t[k]

\* C5: the sources asked for an indicator are an initial part of its
\* configured order (so in order, each at most once), and once a source has
\* been accepted it is the last one asked.
C5_InOrderOnceUntilAccepted ==
    \A ind \in Indicators :
        /\ IsPrefix(attempted[ind], Config[ind])
        /\ origin[ind] # "none" =>
              /\ attempted[ind] # <<>>
              /\ origin[ind] = Last(attempted[ind])
        /\ (Resolved(ind) /\ origin[ind] = "none") => attempted[ind] = Config[ind]
        /\ Resolved(ind) => (agg[ind].kind = "series" <=> origin[ind] # "none")

\* The dollar index accepted from its second source: the first was asked
\* and rejected, the third never asked.
C5_Witness ==
    /\ Resolved("dxy")
    /\ origin.dxy = "yahoo:DX-Y.NYB"
    /\ attempted.dxy = <<"polygon:I:DXY", "yahoo:DX-Y.NYB">>
    /\ AdapterResult("polygon:I:DXY").kind = "series"

Adapters == {"polygon_aggs", "finnhub_quote", "_yahoo_chart"}

\* C6: no adapter raises on a malformed response: no run ends with an
\* exception out of polygon_aggs, finnhub_quote or _yahoo_chart.
C6_AdaptersNeverRaise ==
    /\ exc.where \notin Adapters
    /\ \A ind \in Indicators : \A k \in 1..Len(attempted[ind]) :
          AdapterResult(attempted[ind][k]).kind # "raise"

Outputs ==
    <<"metrics.json", "sectors.json", "watchlist.json", "volatility.json",
      "pulse.json", "predictions.json", "macro.json">>

Names(fs) == [k \in 1..Len(fs) |-> fs[k].name]

Ended == pc \in {"done", "crashed"}

\* C7: a run never ends with an exception: the files written so far are
\* always an initial part of the seven outputs in order, and when the run
\* has ended all seven are written.
C7_RunWritesAllSeven ==
    /\ pc # "crashed"
    /\ IsPrefix(Names(files), Outputs)
    /\ Ended => Names(files) = Outputs

Bodies(fs) == [k \in 1..Len(fs) |-> [name |-> fs[k].name, body |-> fs[k].body]]

\* C8 as stated: a second run on the same upstream answers ends with every
\* output equal to the first run's in every field but last_updated.
C8_SameButLastUpdated ==
    (run >= 2 /\ Ended) => Bodies(files) = Bodies(prev.files)

\* A body with the final note of macro.json left out.
ButLastRun(f) ==
    IF f.name = "macro.json" THEN SubSeq(f.body, 1, Len(f.body) - 1) ELSE f.body

\* C8 amended: a second run on the same upstream answers ends as the first
\* did, with every output equal to the first run's in every field but
\* last_updated and the final "Last run" note of macro.json.
C8_SameButLastUpdatedAndLastRun ==
    (run >= 2 /\ Ended) =>
        /\ pc = prev.pc
        /\ Names(files) = Names(prev.files)
        /\ \A k \in 1..Len(files) : ButLastRun(files[k]) = ButLastRun(prev.files[k])

\* Two completed runs at different wall-clock times.
C8_Witness ==
    /\ run >= 2
    /\ pc = "done"
    /\ Len(prev.files) = 7
    /\ files[7].last_updated # prev.files[7].last_updated
    /\ Last(files[7].body) # Last(prev.files[7].body)

PulseWritten == Len(files) >= 5 /\ files[5].name = "pulse.json"

\* C11: in pulse.json dates and scores have the same length, and the date at
\* every position is the date of the benchmark observation its score was
\* computed from: compute_pulse_score computes its k-th score from the k-th
\* benchmark observation, so the dates are the first len(scores) benchmark
\* dates, whatever the lengths of the two series.
C11_DatesOfScoredDays ==
    (PulseWritten /\ files[5].body.scores # <<>>) =>
        /\ Len(files[5].body.dates) = Len(files[5].body.scores)
        /\ \A k \in 1..Len(files[5].body.scores) :
              files[5].body.dates[k] = agg.spy.dates[k]

(***************************************************************************)
(* Calls of the pure functions: a call's arguments are drawn by Init, the  *)
(* action applies the function and records what the call ended with.       *)
(***************************************************************************)
\* Series lengths range over 0 and MinLen..MaxLen.
MaxLen == 22

MinLen == MaxLen - 4

Lens == {0} \cup MinLen..MaxLen

\* Where a series departs from its base value: nowhere, at its first value,
\* at its eleventh, at its last, everywhere.
Places(n) == {{}, {1}, {11}, {n}, 1..n}

SpyValues ==
    UNION {{Pattern(n, 100 * Unit, alt, pos) : alt \in {0, 90 * Unit, 110 * Unit},
                                               pos \in Places(n)} : n \in Lens}

\* Volumes: none (the chart adapter), one per value, one of them zero,
\* fewer than the values, a last-day spike.
VolumesFor(n) ==
    {<<>>, Pattern(n, 1000, 0, {}), Pattern(n, 1000, 0, {11}),
     Pattern(5, 1000, 0, {}), Pattern(n, 1000, 1500, {n})}

SpyInputs ==
    {None} \cup UNION {{Series([k \in 1..Len(v) |-> k], v, w) : w \in VolumesFor(Len(v))} :
                        v \in SpyValues}

VixValues ==
    UNION {{Pattern(n, 12 * Unit, alt, pos) : alt \in {0, 40 * Unit},
                                              pos \in {{}, {1}, {n}}} : n \in Lens}
    \cup {Pattern(n, (245 * Unit) \div 10, 0, {}) : n \in Lens}

VixInputs == {None} \cup {Series([k \in 1..Len(v) |-> k], v, <<>>) : v \in VixValues}

PulseInit ==
    /\ args \in [spy_data : SpyInputs, vix_data : VixInputs]
    /\ ret = NoResult
    /\ phase = "call"
    /\ env = Both
    /\ upstream = Nominal
    /\ quotes = [s \in QuoteSymbols |-> NominalQuote]
    /\ clock = 0
    /\ run = 1
    /\ pc = "idle"
    /\ try = 1
    /\ agg = [i \in Indicators |-> None]
    /\ origin = [i \in Indicators |-> "none"]
    /\ attempted = [i \in Indicators |-> <<>>]
    /\ now = 0
    /\ pulse_scores = NoResult
    /\ files = <<>>
    /\ exc = NoException
    /\ prev = [files |-> <<>>, pc |-> "none"]
    /\ transport = NoFetch

CallPulse ==
    /\ phase = "call"
    /\ ret' = compute_pulse_score(args.spy_data, args.vix_data)
    /\ phase' = "done"
    /\ UNCHANGED args
    /\ UNCHANGED mainVars

PulseNext == CallPulse

PulseSpec == PulseInit /\ [][PulseNext]_vars

(***************************************************************************)
(* Claims about compute_pulse_score (PulseSpec).                           *)
(***************************************************************************)
PulseDone == phase = "done" /\ "spy_data" \in DOMAIN args

PulseN == Min2(Len(args.spy_data.values), Len(args.vix_data.values))

IsConstant(vals) == \A k \in 1..Len(vals) : vals[k] = vals[1]

\* C9: compute_pulse_score returns no result exactly when a series is missing
\* or empty or n = min(len(benchmark), len(volatility)) < 20; otherwise it
\* returns exactly n scores, each in [0, 100].
C9_ScoresForEveryDay ==
    PulseDone =>
        IF args.spy_data.kind = "None" \/ args.vix_data.kind = "None" \/ PulseN < 20
        THEN ret.kind = "None"
        ELSE /\ ret.kind = "scores"
             /\ Len(ret.scores) = PulseN
             /\ \A k \in 1..Len(ret.scores) : ret.scores[k] \in 0..1000

\* The case of C10: a constant benchmark without volume data and a volatility
\* series pinned at 12, both of length at least 20.
FlatCase ==
    /\ PulseDone
    /\ args.spy_data.kind = "series" /\ args.vix_data.kind = "series"
    /\ Len(args.spy_data.values) >= 20 /\ Len(args.vix_data.values) >= 20
    /\ args.spy_data.volumes = <<>>
    /\ IsConstant(args.spy_data.values)
    /\ \A k \in 1..Len(args.vix_data.values) : args.vix_data.values[k] = 12 * Unit

SignalIs(sig, v) == sig.st = "on" => sig.s = RInt(v)

\* C10 as stated: in the flat case the trend, momentum and volatility-level
\* signals are 50 wherever they are active and every score returned is 50.0.
C10_FlatScoresAreFifty ==
    FlatCase =>
        /\ \A i \in 0..(PulseN - 1) :
              /\ SignalIs(trend_signal(args.spy_data.values, i), 50)
              /\ SignalIs(momentum_signal(args.spy_data.values, i), 50)
              /\ SignalIs(volatility_signal(args.vix_data.values, i), 50)
        /\ ret.kind = "scores"
        /\ \A k \in 1..Len(ret.scores) : ret.scores[k] = 500

\* C10 amended: in the flat case the trend, momentum and volatility-direction
\* signals are 50 wherever they are active, the volatility-level signal is
\* 100, and the scores returned are 100.0 for days 0..4, 81.2 for days 5..9,
\* 70.8 for days 10..19 and 64.7 from day 20 on.
C10_FlatScoresByLookback ==
    FlatCase =>
        /\ \A i \in 0..(PulseN - 1) :
              /\ SignalIs(trend_signal(args.spy_data.values, i), 50)
              /\ SignalIs(momentum_signal(args.spy_data.values, i), 50)
              /\ SignalIs(vix_direction_signal(args.vix_data.values, i), 50)
              /\ volatility_signal(args.vix_data.values, i).s = RInt(100)
        /\ ret.kind = "scores" =>
              /\ Len(ret.scores) = PulseN
              /\ \A k \in 1..Len(ret.scores) :
                    ret.scores[k] = IF k - 1 < 5 THEN 1000
                                    ELSE IF k - 1 < 10 THEN 812
                                    ELSE IF k - 1 < 20 THEN 708
                                    ELSE 647

\* A flat case scored past day 20, where all four signals are active.
C10_Witness ==
    /\ FlatCase
    /\ ret.kind = "scores"
    /\ Len(ret.scores) > 20

(***************************************************************************)
(* Calls of compute_predictions (PredSpec).  The benchmark is a long run   *)
(* at one level, nineteen days at a second and a last day at a third, so   *)
(* that the two averages and the latest value fall in every order.         *)
(***************************************************************************)
\* Days before the last twenty: one fewer than, exactly, or one more than
\* the fifty-day average needs.
HeadLens == {29, 30, 31}

Quarter == Unit \div 4

SpyLevels == {90 * Unit, 100 * Unit, 110 * Unit}

RecentLevels == {98 * Unit, 100 * Unit, 102 * Unit}

LatestLevels ==
    {96 * Unit, 98 * Unit + 2 * Quarter, 99 * Unit, 100 * Unit, 100 * Unit + 2 * Quarter,
     101 * Unit + 2 * Quarter, 103 * Unit, 104 * Unit, 125 * Unit}

TrendInputs ==
    {Series([k \in 1..(h + 20) |-> k],
            [k \in 1..(h + 20) |-> IF k <= h THEN a ELSE IF k < h + 20 THEN b ELSE c],
            <<>>) :
        h \in HeadLens, a \in SpyLevels, b \in RecentLevels, c \in LatestLevels}

VixForPredictions ==
    {None,
     Series([k \in 1..20 |-> k], Pattern(20, 18 * Unit, 12 * Unit, {20}), <<>>),
     Series([k \in 1..20 |-> k], Pattern(20, 18 * Unit, 30 * Unit, {20}), <<>>)}

ScoresForPredictions == {NoResult, Scores(<<700, 700, 700, 700, 710>>)}

PredInit ==
    /\ args \in [spy_data : TrendInputs \cup {None}, vix_data : VixForPredictions,
                 pulse_scores : ScoresForPredictions]
    /\ ret = <<>>
    /\ phase = "call"
    /\ env = Both
    /\ upstream = Nominal
    /\ quotes = [s \in QuoteSymbols |-> NominalQuote]
    /\ clock = 0
    /\ run = 1
    /\ pc = "idle"
    /\ try = 1
    /\ agg = [i \in Indicators |-> None]
    /\ origin = [i \in Indicators |-> "none"]
    /\ attempted = [i \in Indicators |-> <<>>]
    /\ now = 0
    /\ pulse_scores = NoResult
    /\ files = <<>>
    /\ exc = NoException
    /\ prev = [files |-> <<>>, pc |-> "none"]
    /\ transport = NoFetch

CallPredictions ==
    /\ phase = "call"
    /\ ret' = compute_predictions(args.spy_data, args.vix_data, args.pulse_scores)
    /\ phase' = "done"
    /\ UNCHANGED args
    /\ UNCHANGED mainVars

PredNext == CallPredictions

PredSpec == PredInit /\ [][PredNext]_vars

(***************************************************************************)
(* Claims about compute_predictions (PredSpec).                            *)
(***************************************************************************)
PredDone == phase = "done" /\ "pulse_scores" \in DOMAIN args

Enough == args.spy_data.kind = "series" /\ Len(args.spy_data.values) >= 50

latest == RInt(Last(args.spy_data.values))

sma20 == Mean(Tail_k(args.spy_data.values, 20))

sma50 == Mean(Tail_k(args.spy_data.values, 50))

\* The fractional distance between the latest value and sma20, 500 times.
Gap500 == RMul(RAbs(RSub(RDiv(latest, sma20), RInt(1))), RInt(500))

Direction ==
    IF RLt(sma20, latest) /\ RLt(sma50, sma20) THEN "BULLISH"
    ELSE IF RLt(latest, sma20) /\ RLt(sma20, sma50) THEN "BEARISH"
    ELSE "NEUTRAL"

TrendCard == ret[1]

HasTrendCard == ret # <<>> /\ ret[1].name = "Trend Regime"

\* C12 as stated: with at least 50 points the Trend Regime direction is
\* BULLISH exactly when latest > sma20 > sma50, BEARISH exactly when
\* latest < sma20 < sma50, else NEUTRAL; the confidence of a BULLISH or
\* BEARISH call is min(85, 60 + round(500 x gap)), of a NEUTRAL call 45.
C12_ConfidenceRounded ==
    (PredDone /\ Enough) =>
        /\ HasTrendCard
        /\ TrendCard.direction = Direction
        /\ TrendCard.confidence =
              IF Direction = "NEUTRAL" THEN 45 ELSE Min2(85, 60 + Round(Gap500, 0))

\* C12 amended: the same directions; the confidence of a BULLISH or BEARISH
\* call is min(85, 60 + int(500 x gap)), the product cut to its integer
\* part, so it lies in 60..85; of a NEUTRAL call 45; with fewer than 50
\* points there is no Trend Regime prediction.
C12_ConfidenceTruncated ==
    PredDone =>
        IF Enough
        THEN /\ HasTrendCard
             /\ TrendCard.direction = Direction
             /\ TrendCard.confidence =
                   IF Direction = "NEUTRAL" THEN 45 ELSE Min2(85, 60 + Trunc(Gap500))
             /\ Direction # "NEUTRAL" => TrendCard.confidence \in 60..85
        ELSE ~HasTrendCard

\* A BULLISH call whose 500 x gap has a fraction of a half or more, below
\* the cap.
C12_Witness ==
    /\ PredDone
    /\ Enough
    /\ HasTrendCard
    /\ TrendCard.direction = "BULLISH"
    /\ TrendCard.confidence < 85
    /\ Round(Gap500, 0) # Trunc(Gap500)

(***************************************************************************)
(* fetch_json and fetch_text (FetchSpec).  Every request either fails      *)
(* (urlopen raises) or is answered with a body: a JSON object, the JSON    *)
(* null, or text that is not JSON.                                         *)
(***************************************************************************)
\* The largest retries argument followed.
MaxRetries == 4

\* retries = -1 makes range(retries + 1) empty.
RetriesValues == -1..MaxRetries

Fetchers == {"fetch_json", "fetch_text"}

Answered == {"object", "null", "not_json"}

\* How a request ends: "error" when the try block raises.  json.loads raises
\* on text that is not JSON; fetch_text returns any text.
Ending(fn, served) ==
    IF served = "unreachable" THEN "error"
    ELSE IF fn = "fetch_json" /\ served = "not_json" THEN "error"
    ELSE "ok"

\* What the try block returns: json.loads of null is None.
Returned(fn, served) ==
    IF fn = "fetch_json" /\ served = "null" THEN "None" ELSE served

\* The sleep that would follow every failure, the last one too.
another_attempt_always(attempt, retries) == TRUE

\* if attempt < retries
another_attempt(attempt, retries) == attempt < retries

FetchInit ==
    /\ \E fn \in Fetchers, r \in RetriesValues :
          transport = [NoFetch EXCEPT !.fn = fn, !.retries = r, !.at = "loop"]
    /\ args = NoCall
    /\ ret = NoResult
    /\ phase = "idle"
    /\ env = Both
    /\ upstream = Nominal
    /\ quotes = [s \in QuoteSymbols |-> NominalQuote]
    /\ clock = 0
    /\ run = 1
    /\ pc = "idle"
    /\ try = 1
    /\ agg = [i \in Indicators |-> None]
    /\ origin = [i \in Indicators |-> "none"]
    /\ attempted = [i \in Indicators |-> <<>>]
    /\ now = 0
    /\ pulse_scores = NoResult
    /\ files = <<>>
    /\ exc = NoException
    /\ prev = [files |-> <<>>, pc |-> "none"]

FetchUnchanged ==
    UNCHANGED <<args, ret, phase, env, upstream, quotes, clock, run, pc, try, agg,
                origin, attempted, now, pulse_scores, files, exc, prev>>

\* One pass of the loop body: the request is opened and either its result
\* is returned or the exception is handled.
Request ==
    /\ transport.at = "loop"
    /\ transport.attempt <= transport.retries
    /\ \E served \in Answered \cup {"unreachable"} :
          LET ending == Ending(transport.fn, served)
              t == [transport EXCEPT !.outcomes = Append(@, ending)]
          IN  transport' =
                 IF ending = "ok"
                 THEN [t EXCEPT !.at = "returned", !.result = Returned(transport.fn, served)]
                 ELSE IF another_attempt(transport.attempt, transport.retries)
                 THEN [t EXCEPT !.at = "sleep"]
                 ELSE [t EXCEPT !.at = "returned", !.result = "None"]
    /\ FetchUnchanged

\* time.sleep(2 ** attempt), then the next pass
Sleep ==
    /\ transport.at = "sleep"
    /\ transport' = [transport EXCEPT !.slept = Append(@, 2 ^ transport.attempt),
                                      !.attempt = @ + 1,
                                      !.at = "loop"]
    /\ FetchUnchanged

\* range(retries + 1) is used up: the function ends without a return
\* statement, which returns None.
LoopEnds ==
    /\ transport.at = "loop"
    /\ transport.attempt > transport.retries
    /\ transport' = [transport EXCEPT !.at = "returned", !.result = "None"]
    /\ FetchUnchanged

FetchNext == Request \/ Sleep \/ LoopEnds

FetchSpec == FetchInit /\ [][FetchNext]_vars

(***************************************************************************)
(* Claims about fetch_json and fetch_text (FetchSpec).                     *)
(***************************************************************************)
Fetching == transport.at \in {"loop", "sleep", "returned"}

Attempts == Len(transport.outcomes)

Failures == Cardinality({k \in 1..Attempts : transport.outcomes[k] = "error"})

\* C13: a call with retries = r makes at most r + 1 attempts; only its last
\* attempt can have succeeded, and then it has returned that response; the
\* sleeps taken are 2^0, 2^1, ... one after each failed attempt that another
\* attempt follows, none after the last; until it returns it has an attempt
\* left, so it returns, and after r + 1 failed attempts it returns None.
C13_BoundedRetries ==
    Fetching =>
        /\ Attempts <= Max2(0, transport.retries + 1)
        /\ \A k \in 1..(Attempts - 1) : transport.outcomes[k] = "error"
        /\ transport.slept = [k \in 1..Len(transport.slept) |-> 2 ^ (k - 1)]
        /\ transport.at # "returned" => ENABLED FetchNext
        /\ transport.at = "loop" =>
              /\ Len(transport.slept) = Attempts
              /\ Failures = Attempts
              /\ transport.attempt = Attempts
        /\ transport.at = "sleep" =>
              /\ Len(transport.slept) = Attempts - 1
              /\ Failures = Attempts
              /\ Attempts <= transport.retries
        /\ transport.at = "returned" =>
              /\ Len(transport.slept) = Max2(0, Attempts - 1)
              /\ Failures < Attempts =>
                    transport.result \in (IF transport.fn = "fetch_json"
                                          THEN {"object", "None"} ELSE Answered)
              /\ Failures = Attempts =>
                    /\ transport.result = "None"
                    /\ Attempts = Max2(0, transport.retries + 1)

\* A response returned at the third attempt, after sleeps of 1 and 2
\* seconds, with retries to spare.
C13_Witness ==
    /\ transport.at = "returned"
    /\ transport.outcomes = <<"error", "error", "ok">>
    /\ transport.slept = <<1, 2>>
    /\ transport.retries > 2
    /\ transport.result = "object"

====
